---- MODULE Spec2Model ----
(***************************************************************************)
(* Model of src/data_collection.py: DataCollector, DataLoader and the      *)
(* driver etl_pipeline.  Every method is an operator from its inputs and   *)
(* the behaviour of the external service it calls to its return value, the *)
(* log entries it writes and its effect on the outside world.  The actions *)
(* are the checkpoints of etl_pipeline, and the same methods called        *)
(* directly on a DataCollector or a DataLoader.                            *)
(***************************************************************************)
EXTENDS Integers, Sequences, FiniteSets, TLC

VARIABLES
    entry,            \* which entry point of the module this run calls
    config,           \* the configuration mapping passed in
    pc,               \* position of the run
    outcome,          \* "running", "returned" or "raised" (to the caller)
    analytics,        \* DataCollector.analytics: None or a session
    bigquery_client,  \* DataLoader.bigquery_client: None or a client
    click_data,       \* the DataFrame returned by collect_click_data
    response,         \* what the analytics endpoint answered to the fetch
    requests_sent,    \* the HTTP requests issued so far
    tables,           \* the destination: table name -> rows
    log,              \* the log stream
    calls,            \* the constructors and methods called so far, in order
    loads,            \* one record per call of load_data
    target_table      \* the table name the caller passes to load_data

vars == << entry, config, pc, outcome, analytics, bigquery_client, click_data,
           response, requests_sent, tables, log, calls, loads, target_table >>

(***************************** bounds **************************************)
\* longest "items" list / batch considered
MaxItems == 2
\* most calls of load_data on one DataLoader
MaxLoads == 2

(***************************** values **************************************)
\* Optional[...]: None is the empty set, a present value x is {x}
None == {}

BoundedSeq(S, n) == UNION { [1..k -> S] : k \in 0..n }

\* elements an "items" list can hold: r1 and r2 stand for records with
\* exactly the four string fields of the schema load_data declares
\* (timestamp, user_id, affiliate_id, click_source), x for an element of any
\* other shape
Elements == { "r1", "r2", "x" }
IsClickRecord(e) == e \in { "r1", "r2" }

FullConfig ==
    [ GA_API_KEY      |-> "k",
      GA_ENDPOINT     |-> "https://x/clicks",
      START_DATE      |-> "2024-01-01",
      END_DATE        |-> "2024-01-02",
      GCP_CREDENTIALS |-> "valid",
      GCP_PROJECT     |-> "p",
      DATASET         |-> "d" ]

Without(cfg, keys) == [ k \in (DOMAIN cfg) \ keys |-> cfg[k] ]

\* the configurations: complete, with one of these keys missing, or with a
\* credential payload the service-account parser rejects
Configs ==
    { FullConfig, [ FullConfig EXCEPT !.GCP_CREDENTIALS = "invalid" ] }
    \cup { Without(FullConfig, { k }) :
              k \in { "GA_API_KEY", "GA_ENDPOINT", "GCP_CREDENTIALS", "DATASET" } }

Has(cfg, key) == key \in DOMAIN cfg

TableNames == { "clicks_table", "other_table" }

\* HTTP statuses the endpoint may answer with
Statuses == { 101, 200, 304, 404, 500 }

\* response bodies: not JSON at all, a JSON object without "items", an
\* "items" that is a scalar, or an "items" list
Bodies ==
    { [ kind |-> k, items |-> << >> ] : k \in { "not_json", "no_items", "items_scalar" } }
    \cup { [ kind |-> "items_list", items |-> s ] : s \in BoundedSeq(Elements, MaxItems) }

\* behaviours of the analytics endpoint: unreachable, or a response
Responses ==
    { [ reached |-> FALSE, status |-> 0, body |-> [ kind |-> "not_json", items |-> << >> ] ] }
    \cup { [ reached |-> TRUE, status |-> s, body |-> b ] : s \in Statuses, b \in Bodies }

NoResponse == [ reached |-> FALSE, status |-> 0, body |-> [ kind |-> "not_json", items |-> << >> ] ]

\* behaviours of the warehouse on load_data: a fault while preparing the call,
\* a fault raised by insert_rows_json, per-row insert errors in its return
\* value, or an accepted insert
InsertOutcomes == { "prepare_raises", "insert_raises", "row_errors", "ok" }

Err(m)  == [ level |-> "ERROR", msg |-> m, rows |-> 0 ]
Info(m) == [ level |-> "INFO",  msg |-> m, rows |-> 0 ]
InfoRows(m, n) == [ level |-> "INFO", msg |-> m, rows |-> n ]

(***************************** DataCollector *******************************)
\* f'Bearer {key}'
Bearer(key) == << "Bearer", key >>

\* initialize_google_analytics: a session carrying the Authorization header,
\* or None (and one logged error) when the key lookup raises
initialize_google_analytics(cfg) ==
    IF Has(cfg, "GA_API_KEY")
    THEN [ ret |-> { [ headers |-> { << "Authorization", Bearer(cfg["GA_API_KEY"]) >> } ] },
           log |-> << >>, raised |-> FALSE ]
    ELSE [ ret |-> None,
           log |-> << Err("Failed to initialize Google Analytics client") >>,
           raised |-> FALSE ]

\* a success test that lets 4xx statuses through
ok_below_500(status) == status < 500

\* response.ok of the requests library: no 4xx or 5xx status
ok(status) == ~ (400 <= status /\ status < 600)

\* pd.DataFrame(items) for an "items" list: one row per element, whatever
\* the element is
DataFrame(items) == [ k \in 1..Len(items) |-> items[k] ]

\* the request collect_click_data issues: the module-level requests.get, which
\* uses a fresh session and so the library's default headers
FetchRequest(cfg) ==
    [ url     |-> cfg["GA_ENDPOINT"],
      params  |-> { << "start_date", cfg["START_DATE"] >>, << "end_date", cfg["END_DATE"] >> },
      headers |-> { } ]

\* collect_click_data: session is self.analytics, which the method never
\* reads; env is the behaviour of the endpoint
collect_click_data(cfg, session, env) ==
    LET failed(sent) == [ ret |-> << >>, sent |-> sent, raised |-> FALSE,
                          log |-> << Err("Error collecting click data") >> ]
    IN  IF ~ (Has(cfg, "GA_ENDPOINT") /\ Has(cfg, "START_DATE") /\ Has(cfg, "END_DATE"))
        THEN failed(<< >>)
        ELSE LET req == FetchRequest(cfg)
             IN  IF ~ env.reached
                 THEN failed(<< req >>)
                 ELSE IF ~ ok(env.status)
                 THEN [ ret |-> << >>, sent |-> << req >>, raised |-> FALSE,
                        log |-> << Err("Failed to collect click data") >> ]
                 ELSE IF env.body.kind # "items_list"
                 THEN failed(<< req >>)
                 ELSE [ ret |-> DataFrame(env.body.items), sent |-> << req >>,
                        raised |-> FALSE, log |-> << >> ]

(***************************** DataLoader **********************************)
\* initialize_bigquery: a client, or None (and one logged error)
initialize_bigquery(cfg, client_raises) ==
    IF Has(cfg, "GCP_CREDENTIALS") /\ cfg["GCP_CREDENTIALS"] = "valid"
       /\ Has(cfg, "GCP_PROJECT") /\ ~ client_raises
    THEN [ ret |-> { "client" }, log |-> << >>, raised |-> FALSE ]
    ELSE [ ret |-> None, log |-> << Err("Failed to initialize BigQuery client") >>,
           raised |-> FALSE ]

\* df.to_json(orient='records'): one string, here its characters
RECURSIVE Records(_)
Records(df) ==
    IF df = << >> THEN << >>
    ELSE << "{", Head(df), "}" >>
         \o (IF Tail(df) = << >> THEN << >> ELSE << "," >> \o Records(Tail(df)))

to_json(df) == << "[" >> \o Records(df) \o << "]" >>

\* lines 94-114 of load_data, with a client: tbls is the destination before
\* the call, env the behaviour of the warehouse.  insert_rows_json receives
\* the JSON string as its rows and its return value is dropped; an accepted
\* insert appends the elements of what it was given
submit(cfg, df, table_name, tbls, env) ==
    LET failed(att) == [ ret |-> FALSE, tables |-> tbls, attempted |-> att, raised |-> FALSE,
                         log |-> << Err("Error loading data into BigQuery") >> ]
    IN  IF ~ Has(cfg, "DATASET") \/ env = "prepare_raises"
        THEN failed(FALSE)
        ELSE LET json_data == to_json(df)
             IN  IF env = "insert_raises"
                 THEN failed(TRUE)
                 ELSE IF env = "row_errors"
                 THEN [ ret |-> TRUE, log |-> << >>, tables |-> tbls, attempted |-> TRUE,
                        raised |-> FALSE ]
                 ELSE [ ret |-> TRUE, log |-> << >>, attempted |-> TRUE, raised |-> FALSE,
                        tables |-> [ tbls EXCEPT ![table_name] = @ \o json_data ] ]

\* load_data whose early exit reports success
load_data_early_true(client, cfg, df, table_name, tbls, env) ==
    IF client = None
    THEN [ ret |-> TRUE, log |-> << >>, tables |-> tbls, attempted |-> FALSE,
           raised |-> FALSE ]
    ELSE submit(cfg, df, table_name, tbls, env)

\* load_data: without a client, False at once
load_data(client, cfg, df, table_name, tbls, env) ==
    IF client = None
    THEN [ ret |-> FALSE, log |-> << >>, tables |-> tbls, attempted |-> FALSE,
           raised |-> FALSE ]
    ELSE submit(cfg, df, table_name, tbls, env)

\* what one call of load_data is remembered by
LoadRecord(client, df, table_name, env, r, before) ==
    [ client |-> client # None, df |-> df, table |-> table_name, env |-> env,
      ret |-> r.ret, attempted |-> r.attempted, errors |-> Len(r.log),
      before |-> before, after |-> r.tables ]

(***************************** etl_pipeline ********************************)
\* an outer except clause that logs and raises again
etl_pipeline_reraise ==
    [ outcome |-> "raised", log |-> << Err("Error in ETL pipeline") >> ]

\* the outer except clause: log, and return normally
etl_pipeline_except ==
    [ outcome |-> "returned", log |-> << Err("Error in ETL pipeline") >> ]

Init ==
    /\ entry \in { "etl_pipeline", "DataCollector", "DataLoader" }
    /\ config \in Configs
    /\ pc = (IF entry = "DataLoader" THEN "loader" ELSE "collector")
    /\ outcome = "running"
    /\ analytics = None
    /\ bigquery_client = None
    /\ click_data \in (IF entry = "DataLoader" THEN BoundedSeq(Elements, MaxItems)
                                              ELSE { << >> })
    /\ target_table \in (IF entry = "DataLoader" THEN TableNames ELSE { "clicks_table" })
    /\ response = NoResponse
    /\ requests_sent = << >>
    /\ tables \in { [ t \in TableNames |-> rows ] : rows \in { << >>, << "r0" >> } }
    /\ log = << >>
    /\ calls = << >>
    /\ loads = << >>

\* a step of the driver ends the run: `by` is what the run ends with
Finish(by, entries) ==
    /\ pc' = "done"
    /\ outcome' = by
    /\ log' = log \o entries

\* a method raised into the driver: the outer except clause takes over
Barrier(entries) ==
    Finish(etl_pipeline_except.outcome, entries \o etl_pipeline_except.log)

\* lines 124-127 with the check of collector.analytics left out
etl_construct_collector_unchecked ==
    /\ entry = "etl_pipeline" /\ pc = "collector"
    /\ LET r == initialize_google_analytics(config)
       IN  /\ analytics' = r.ret
           /\ calls' = Append(calls, "DataCollector")
           /\ pc' = "fetch" /\ log' = log \o r.log /\ UNCHANGED outcome
    /\ UNCHANGED << entry, config, bigquery_client, click_data, response,
                    requests_sent, tables, loads, target_table >>

\* lines 124-127: construct the Collector, stop without a session
etl_construct_collector ==
    /\ entry = "etl_pipeline" /\ pc = "collector"
    /\ LET r == initialize_google_analytics(config)
       IN  /\ analytics' = r.ret
           /\ calls' = Append(calls, "DataCollector")
           /\ IF r.raised THEN Barrier(r.log)
              ELSE IF r.ret = None
              THEN Finish("returned",
                          r.log \o << Err("Google Analytics client failed to initialize") >>)
              ELSE pc' = "fetch" /\ log' = log \o r.log /\ UNCHANGED outcome
    /\ UNCHANGED << entry, config, bigquery_client, click_data, response,
                    requests_sent, tables, loads, target_table >>

\* lines 129-132 with the check of click_data.empty left out
etl_fetch_unchecked ==
    /\ entry = "etl_pipeline" /\ pc = "fetch"
    /\ \E env \in Responses :
         LET r == collect_click_data(config, analytics, env)
         IN  /\ response' = (IF r.sent = << >> THEN NoResponse ELSE env)
             /\ click_data' = r.ret
             /\ requests_sent' = requests_sent \o r.sent
             /\ calls' = Append(calls, "collect_click_data")
             /\ pc' = "loader" /\ log' = log \o r.log /\ UNCHANGED outcome
    /\ UNCHANGED << entry, config, analytics, bigquery_client, tables, loads, target_table >>

\* lines 129-132: fetch the batch, stop when it is empty
etl_fetch ==
    /\ entry = "etl_pipeline" /\ pc = "fetch"
    /\ \E env \in Responses :
         LET r == collect_click_data(config, analytics, env)
         IN  /\ response' = (IF r.sent = << >> THEN NoResponse ELSE env)
             /\ click_data' = r.ret
             /\ requests_sent' = requests_sent \o r.sent
             /\ calls' = Append(calls, "collect_click_data")
             /\ IF r.raised THEN Barrier(r.log)
                ELSE IF r.ret = << >>
                THEN Finish("returned", r.log \o << Info("No click data collected") >>)
                ELSE pc' = "loader" /\ log' = log \o r.log /\ UNCHANGED outcome
    /\ UNCHANGED << entry, config, analytics, bigquery_client, tables, loads, target_table >>

\* lines 134-137: construct the Loader, stop without a client
etl_construct_loader ==
    /\ entry = "etl_pipeline" /\ pc = "loader"
    /\ \E client_raises \in BOOLEAN :
         LET r == initialize_bigquery(config, client_raises)
         IN  /\ bigquery_client' = r.ret
             /\ calls' = Append(calls, "DataLoader")
             /\ IF r.raised THEN Barrier(r.log)
                ELSE IF r.ret = None
                THEN Finish("returned",
                            r.log \o << Err("BigQuery client failed to initialize") >>)
                ELSE pc' = "submit" /\ log' = log \o r.log /\ UNCHANGED outcome
    /\ UNCHANGED << entry, config, analytics, click_data, response,
                    requests_sent, tables, loads, target_table >>

\* lines 139-143: submit the batch and log the result
etl_submit ==
    /\ entry = "etl_pipeline" /\ pc = "submit"
    /\ \E env \in InsertOutcomes :
         LET r == load_data(bigquery_client, config, click_data, target_table, tables, env)
         IN  /\ tables' = r.tables
             /\ loads' = Append(loads, LoadRecord(bigquery_client, click_data,
                                                  target_table, env, r, tables))
             /\ calls' = Append(calls, "load_data")
             /\ IF r.raised THEN Barrier(r.log)
                ELSE IF r.ret
                THEN Finish("returned",
                            r.log \o << InfoRows("Successfully loaded rows into BigQuery",
                                                 Len(click_data)) >>)
                ELSE Finish("returned",
                            r.log \o << Err("Failed to load data into BigQuery") >>)
    /\ UNCHANGED << entry, config, analytics, bigquery_client, click_data,
                    response, requests_sent, target_table >>

\* lines 123-146: a fault nothing anticipated, raised in the try block before
\* the next checkpoint starts, reaches the outer except clause
etl_unexpected_fault ==
    /\ entry = "etl_pipeline"
    /\ pc \in { "collector", "fetch", "loader", "submit" }
    /\ Barrier(<< >>)
    /\ UNCHANGED << entry, config, analytics, bigquery_client, click_data,
                    response, requests_sent, tables, calls, loads, target_table >>

(********************** the classes called directly ************************)
\* DataCollector(config)
DataCollector_init ==
    /\ entry = "DataCollector" /\ pc = "collector"
    /\ LET r == initialize_google_analytics(config)
       IN  /\ analytics' = r.ret
           /\ log' = log \o r.log
           /\ calls' = Append(calls, "DataCollector")
           /\ pc' = "fetch"
           /\ outcome' = (IF r.raised THEN "raised" ELSE outcome)
    /\ UNCHANGED << entry, config, bigquery_client, click_data, response,
                    requests_sent, tables, loads, target_table >>

\* collector.collect_click_data()
DataCollector_collect_click_data ==
    /\ entry = "DataCollector" /\ pc = "fetch" /\ outcome = "running"
    /\ \E env \in Responses :
         LET r == collect_click_data(config, analytics, env)
         IN  /\ response' = (IF r.sent = << >> THEN NoResponse ELSE env)
             /\ click_data' = r.ret
             /\ requests_sent' = requests_sent \o r.sent
             /\ log' = log \o r.log
             /\ calls' = Append(calls, "collect_click_data")
             /\ pc' = "done"
             /\ outcome' = (IF r.raised THEN "raised" ELSE "returned")
    /\ UNCHANGED << entry, config, analytics, bigquery_client, tables, loads, target_table >>

\* DataLoader(config)
DataLoader_init ==
    /\ entry = "DataLoader" /\ pc = "loader"
    /\ \E client_raises \in BOOLEAN :
         LET r == initialize_bigquery(config, client_raises)
         IN  /\ bigquery_client' = r.ret
             /\ log' = log \o r.log
             /\ calls' = Append(calls, "DataLoader")
             /\ pc' = "submit"
             /\ outcome' = (IF r.raised THEN "raised" ELSE outcome)
    /\ UNCHANGED << entry, config, analytics, click_data, response,
                    requests_sent, tables, loads, target_table >>

\* loader.load_data(df, table_name) with the caller's batch, up to MaxLoads
\* times in a row
DataLoader_load_data ==
    /\ entry = "DataLoader" /\ pc = "submit" /\ outcome = "running"
    /\ Len(loads) < MaxLoads
    /\ \E env \in InsertOutcomes :
         LET r == load_data(bigquery_client, config, click_data, target_table, tables, env)
         IN  /\ tables' = r.tables
             /\ log' = log \o r.log
             /\ loads' = Append(loads, LoadRecord(bigquery_client, click_data, target_table,
                                                  env, r, tables))
             /\ calls' = Append(calls, "load_data")
             /\ outcome' = (IF r.raised THEN "raised" ELSE outcome)
    /\ UNCHANGED << entry, config, pc, analytics, bigquery_client, click_data, response,
                    requests_sent, target_table >>

\* the caller is done with the DataLoader
DataLoader_done ==
    /\ entry = "DataLoader" /\ pc = "submit" /\ outcome = "running"
    /\ pc' = "done" /\ outcome' = "returned"
    /\ UNCHANGED << entry, config, analytics, bigquery_client, click_data, response,
                    requests_sent, tables, log, calls, loads, target_table >>

Next ==
    \/ etl_construct_collector
    \/ etl_fetch
    \/ etl_construct_loader
    \/ etl_submit
    \/ etl_unexpected_fault
    \/ DataCollector_init
    \/ DataCollector_collect_click_data
    \/ DataLoader_init
    \/ DataLoader_load_data
    \/ DataLoader_done

Spec == Init /\ [][Next]_vars

(***************************** properties **********************************)
Called(m) == \E i \in 1..Len(calls) : calls[i] = m
Logged(e) == \E i \in 1..Len(log) : log[i] = e
Errors == Cardinality({ i \in 1..Len(log) : log[i].level = "ERROR" })
IsPrefix(s, t) == Len(s) <= Len(t) /\ SubSeq(t, 1, Len(s)) = s
Fetched == Called("collect_click_data") /\ response.reached
Success == \E i \in 1..Len(log) : log[i].msg = "Successfully loaded rows into BigQuery"

\* C1: a run of etl_pipeline never raises to its caller: it is either still
\* running with a step left to take, or it has returned normally
C1_NoExceptionPropagates ==
    entry = "etl_pipeline" =>
        /\ outcome \in { "running", "returned" }
        /\ (pc = "done") <=> (outcome = "returned")
        /\ (pc # "done") => ENABLED Next

\* a fault reached the outer except clause, and the run returned normally
C1_Witness ==
    /\ entry = "etl_pipeline" /\ pc = "done" /\ outcome = "returned"
    /\ Logged(Err("Error in ETL pipeline"))

\* C2: when collect_click_data returns an empty batch in a run of
\* etl_pipeline, the driver logs "No click data collected" and stops, and
\* neither DataLoader nor load_data is ever called
C2_EmptyBatchStopsBeforeLoader ==
    (entry = "etl_pipeline" /\ Called("collect_click_data") /\ click_data = << >>) =>
        /\ pc = "done" /\ outcome = "returned"
        /\ log[Len(log)] = Info("No click data collected")
        /\ ~ Called("DataLoader") /\ ~ Called("load_data")
        /\ bigquery_client = None /\ loads = << >>

\* the endpoint answered HTTP 500 and the run stopped there
C2_Witness ==
    /\ entry = "etl_pipeline" /\ Fetched /\ response.status = 500
    /\ click_data = << >> /\ pc = "done"
    /\ Logged(Err("Failed to collect click data"))

\* C3 as amended: for every response with a 4xx or 5xx status,
\* collect_click_data returns an empty batch and logs an error, whatever
\* the body
C3_ErrorStatusGivesEmptyBatch ==
    (Fetched /\ response.status >= 400 /\ response.status < 600) =>
        /\ click_data = << >>
        /\ Logged(Err("Failed to collect click data"))

\* a 404 whose body is a well-formed items document with records
C3_Witness ==
    /\ Fetched /\ response.status = 404
    /\ response.body.kind = "items_list" /\ response.body.items # << >>
    /\ click_data = << >>

\* C3 as stated: for every response whose status is not 2xx,
\* collect_click_data returns an empty batch
C3_NonSuccessStatusGivesEmptyBatch ==
    (Fetched /\ ~ (response.status >= 200 /\ response.status < 300)) =>
        click_data = << >>

\* C4 as stated: with the API key missing or the endpoint unreachable,
\* constructing a DataCollector and calling collect_click_data yields an
\* empty batch and exactly one logged error, and raises nothing
C4_OneErrorEmptyBatch ==
    (Called("collect_click_data") /\ (~ Has(config, "GA_API_KEY") \/ ~ response.reached)) =>
        /\ click_data = << >>
        /\ Errors = 1
        /\ outcome # "raised"

\* C5: a load_data call on a DataLoader without a client returns False,
\* calls insert_rows_json not at all and leaves every table as it was
C5_NoClientNoSubmission ==
    \A i \in 1..Len(loads) :
        ~ loads[i].client =>
            /\ loads[i].ret = FALSE
            /\ ~ loads[i].attempted
            /\ loads[i].after = loads[i].before

\* load_data was called with a non-empty batch on a DataLoader whose client
\* construction failed
C5_Witness ==
    /\ Called("DataLoader") /\ bigquery_client = None
    /\ \E i \in 1..Len(loads) :
         ~ loads[i].client /\ loads[i].df # << >> /\ loads[i].ret = FALSE

\* C6 as stated: for a non-empty batch of four-field records and a
\* destination that accepts the call, load_data returns True and the table
\* grows by exactly the records of the batch, existing rows untouched
C6_AppendsExactlyTheBatch ==
    \A i \in 1..Len(loads) :
        LET l == loads[i]
        IN  ( /\ l.client /\ Has(config, "DATASET") /\ l.env = "ok" /\ l.df # << >>
              /\ \A k \in 1..Len(l.df) : IsClickRecord(l.df[k]) ) =>
                /\ l.ret = TRUE
                /\ l.after[l.table] = l.before[l.table] \o l.df

\* C7 as stated: load_data returns False and logs an error whenever the
\* append did not complete, returns True only when it did, and the driver
\* logs the success only then
C7_FailureReported ==
    \A i \in 1..Len(loads) :
        LET l == loads[i]
        IN  /\ (l.client /\ l.env # "ok") => (l.ret = FALSE /\ l.errors >= 1)
            /\ (l.ret = TRUE) => (l.env = "ok")
            /\ Success => (l.env = "ok")

\* C8 as stated: a success-status response whose body is not JSON, has no
\* "items", has "items" that is no list, or lists elements that are not
\* four-field records gives an empty batch and a logged error; no batch
\* holds a record outside the schema
C8_MalformedBodyGivesEmptyBatch ==
    (Fetched /\ response.status >= 200 /\ response.status < 300) =>
        LET b == response.body
            malformed == \/ b.kind # "items_list"
                         \/ \E k \in 1..Len(b.items) : ~ IsClickRecord(b.items[k])
        IN  /\ malformed => ( /\ click_data = << >>
                              /\ Logged(Err("Error collecting click data")) )
            /\ \A k \in 1..Len(click_data) : IsClickRecord(click_data[k])

\* C9 as stated: every request collect_click_data issues carries the bearer
\* token built from the configured API key, with start_date and end_date
C9_RequestsCarryBearerToken ==
    \A i \in 1..Len(requests_sent) :
        /\ Has(config, "GA_API_KEY")
        /\ << "Authorization", Bearer(config["GA_API_KEY"]) >> \in requests_sent[i].headers
        /\ { p[1] : p \in requests_sent[i].params } = { "start_date", "end_date" }

\* the four steps of a run, in order
Order == << "DataCollector", "collect_click_data", "DataLoader", "load_data" >>

\* C10: in a run of etl_pipeline the steps happen at most once each and in
\* the fixed order; the fetch only with a session, the Loader only for a
\* non-empty batch, load_data only with a client; a finished run takes no
\* further step
C10_OnePassInOrder ==
    entry = "etl_pipeline" =>
        /\ IsPrefix(calls, Order)
        /\ Called("collect_click_data") => analytics # None
        /\ Called("DataLoader") => click_data # << >>
        /\ Called("load_data") => bigquery_client # None
        /\ Len(requests_sent) <= 1 /\ Len(loads) <= 1
        /\ (pc = "done") => ~ ENABLED Next

\* a run that went through all four steps
C10_Witness ==
    entry = "etl_pipeline" /\ calls = Order /\ pc = "done"

====
